---- MODULE Spec2Model ----
(***************************************************************************)
(* Quadtree construction, aggregation and depth statistics of              *)
(* src/preprocessing/quadtree_builder.py.                                  *)
(*                                                                         *)
(* Coordinates are exact dyadic numbers: the integer v stands for the      *)
(* coordinate v / 32 degrees.  Every box the model subdivides has edges    *)
(* whose sums are even, so the midpoint (a + b) / 2.0 of the source is the *)
(* exact integer (a + b) \div 2.  Averages are exact rationals <<n, d>>.   *)
(***************************************************************************)
EXTENDS Integers, Sequences, FiniteSets, TLC

VARIABLES
    features,      \* the caller's feature list: sequence of [lon, lat]
    bbox,          \* the Quad handed to build_quadtree_for_category
    max_per_node,  \* the max_per_node argument
    root,          \* the QuadtreeNode returned by the build, or None
    stats,         \* the mapping returned by compute_depth_stats, or None
    err,           \* the exception that escaped, or "none"
    pc,            \* position of the driver: "start", "built", "done"
    qbox,          \* a Quad on which the Quad methods are exercised
    quads,         \* result of qbox.subdivide_into_quadrants(), or <<>>
    qfeat,         \* <<f>> for the feature f last tested with qbox.contains_feature
    qhit,          \* <<b>> for the result b of that test, or None
    tbox,          \* the master BBox that is tiled
    chunks16,      \* result of subdivide_into_16 on it, or <<>>
    chunksDiv,     \* result of split_bbox(tbox, divider), or <<>>
    divider,       \* the divider given to split_bbox, 0 before the call
    master_bbox,   \* the Quad given to build_subcat_quadtrees
    cat_map,       \* the groups, in insertion order: sequence of feature lists
    gi,            \* position of the loop over cat_map.items(), from 1
    ci,            \* position of the loop over chunk_bboxes, from 0
    files,         \* files written: <<group, i>> -> content of quadtree_<i>.json
    calls,         \* the invocations of build_quadtree_for_category so far
    heap,          \* the QuadtreeNode objects made so far, by path; children
                   \* are references (paths)
    stack,         \* the call stack of _build and _compute_average_position
    computed,      \* per node, how often its summary has been computed
    lists,         \* the list objects that hold features, by identity; a
                   \* node's data and a call's feats are references to them
    attempt,       \* fetch_osm_data: the loop variable of range(max_attempts)
    response,      \* <<r>> for the outcome r of the request being handled
    fetch_pc,      \* position in fetch_osm_data
    fetch_log,     \* the requests and sleeps of the call so far, in order
    fetch_result   \* <<text>> once fetch_osm_data has returned text

vars == <<features, bbox, max_per_node, root, stats, err, pc, qbox, quads, qfeat, qhit,
          tbox, chunks16, chunksDiv, divider,
          master_bbox, cat_map, gi, ci, files, calls,
          heap, stack, computed, lists,
          attempt, response, fetch_pc, fetch_log, fetch_result>>

buildVars == <<features, bbox, max_per_node, root, stats, err, pc>>

quadVars == <<qbox, quads, qfeat, qhit>>

tileVars == <<tbox, chunks16, chunksDiv, divider>>

pipeVars == <<master_bbox, cat_map, gi, ci, files, calls>>

stepVars == <<heap, stack, computed, lists>>

fetchVars == <<attempt, response, fetch_pc, fetch_log, fetch_result>>

\* what the actions of one specification leave alone
notBuildVars == <<quadVars, tileVars, pipeVars, stepVars, fetchVars>>

notQuadVars == <<buildVars, tileVars, pipeVars, stepVars, fetchVars>>

notTileVars == <<buildVars, quadVars, pipeVars, stepVars, fetchVars>>

notPipeVars == <<buildVars, quadVars, tileVars, stepVars, fetchVars>>

notStepVars == <<stats, err, quadVars, tileVars, pipeVars, fetchVars>>

notFetchVars == <<buildVars, quadVars, tileVars, pipeVars, stepVars>>

\* Python's None; an averagePosition is None or the tuple <<lon, lat>>
None == <<>>

-----------------------------------------------------------------------------
(* Program constants and bounds *)

MAX_DEPTH == 6

MAX_PER_NODE == 25

MaxFeatures == 3

MaxPerNode == 2

MaxQ == 3

MaxDivider == 3

MaxGroups == 2

MaxGroupFeatures == 2

MaxStepFeatures == 2

MaxStepPerNode == 1

\* fetch_overpass.py line 35
max_attempts == 3

\* max_per_node as passed by build_subcat_quadtrees
PIPELINE_MAX_PER_NODE == 50

\* side of a box whose split lines, down to depth MAX_DEPTH, are even
\* integers: an odd coordinate lies on no split line
Grid == 2 ^ (MAX_DEPTH + 1)

-----------------------------------------------------------------------------
(* Exact rational arithmetic standing in for Python floats *)

\* Euclid's algorithm; like the operators on rationals below it takes its
\* arguments as one value, so that each is evaluated once
GCD(a, b) ==
    LET gcd[p \in Nat \X Nat] ==
            IF p[2] = 0 THEN p[1] ELSE gcd[<<p[2], p[1] % p[2]>>]
    IN  gcd[<<a, b>>]

Abs(x) == IF x < 0 THEN -x ELSE x

\* the rational n / d (d > 0) in lowest terms
Rat(n, d) ==
    CHOOSE r \in { <<p[1] \div p[3], p[2] \div p[3]>> :
                     p \in { <<q[1], q[2], GCD(Abs(q[1]), q[2])>> :
                                q \in {<<n, d>>} } } : TRUE

RatAdd(r, s) ==
    CHOOSE t \in { Rat(p[1][1] * p[2][2] + p[2][1] * p[1][2], p[1][2] * p[2][2]) :
                     p \in {<<r, s>>} } : TRUE

RatMulInt(r, k) ==
    CHOOSE t \in { Rat(p[1][1] * p[2], p[1][2]) : p \in {<<r, k>>} } : TRUE

RatDivInt(r, k) ==
    CHOOSE t \in { Rat(p[1][1], p[1][2] * p[2]) : p \in {<<r, k>>} } : TRUE

RECURSIVE SumSeq(_)
SumSeq(s) == IF s = <<>> THEN 0 ELSE Head(s) + SumSeq(Tail(s))

-----------------------------------------------------------------------------
(* Quad *)

Quad(s, w, n, e) == [south |-> s, west |-> w, north |-> n, east |-> e]

\* a variant that returns the north-west quadrant before the south-east one
subdivide_into_quadrants_nw_first(self) ==
    LET mid_lat == (self.south + self.north) \div 2
        mid_lon == (self.west + self.east) \div 2
    IN  << Quad(self.south, self.west, mid_lat, mid_lon),
           Quad(mid_lat, self.west, self.north, mid_lon),
           Quad(self.south, mid_lon, mid_lat, self.east),
           Quad(mid_lat, mid_lon, self.north, self.east) >>

\* a variant whose south-east quadrant starts at the west edge
subdivide_into_quadrants_wide_se(self) ==
    LET mid_lat == (self.south + self.north) \div 2
        mid_lon == (self.west + self.east) \div 2
    IN  << Quad(self.south, self.west, mid_lat, mid_lon),
           Quad(self.south, self.west, mid_lat, self.east),
           Quad(mid_lat, self.west, self.north, mid_lon),
           Quad(mid_lat, mid_lon, self.north, self.east) >>

subdivide_into_quadrants(self) ==
    LET mid_lat == (self.south + self.north) \div 2
        mid_lon == (self.west + self.east) \div 2
    IN  << Quad(self.south, self.west, mid_lat, mid_lon),
           Quad(self.south, mid_lon, mid_lat, self.east),
           Quad(mid_lat, self.west, self.north, mid_lon),
           Quad(mid_lat, mid_lon, self.north, self.east) >>

\* a variant that is exclusive on the east edge
contains_feature_open_east(self, feature) ==
    /\ self.south <= feature.lat /\ feature.lat <= self.north
    /\ self.west <= feature.lon /\ feature.lon < self.east

\* feature is a record [lon, lat]
contains_feature(self, feature) ==
    /\ self.south <= feature.lat /\ feature.lat <= self.north
    /\ self.west <= feature.lon /\ feature.lon <= self.east

-----------------------------------------------------------------------------
(* QuadtreeNode.  data holds references to the caller's features, modelled *)
(* as indices into the list F the build was called with.                   *)

\* a variant that starts every node at the origin instead of None
QuadtreeNode_at_origin(box) ==
    [bbox |-> box, data |-> <<>>, children |-> <<>>,
     poiCount |-> 0, averagePosition |-> << <<0, 1>>, <<0, 1>> >>]

QuadtreeNode(box) ==
    [bbox |-> box, data |-> <<>>, children |-> <<>>,
     poiCount |-> 0, averagePosition |-> None]

\* a variant whose internal nodes take the plain mean of the children's
\* average positions, ignoring the weights
aggregate_unweighted(F, node) ==
    IF node.children = <<>>
    THEN LET n == Len(node.data)
             sum_lon == SumSeq([i \in 1..n |-> F[node.data[i]].lon])
             sum_lat == SumSeq([i \in 1..n |-> F[node.data[i]].lat])
         IN  IF n > 0
             THEN [node EXCEPT
                      !.averagePosition = <<Rat(sum_lon, n), Rat(sum_lat, n)>>,
                      !.poiCount = n]
             ELSE node
    ELSE LET counted == SelectSeq(node.children,
                 LAMBDA c : c.averagePosition # None /\ c.poiCount > 0)
             k == Len(counted)
             total == SumSeq([i \in 1..k |-> counted[i].poiCount])
             sum_lon[i \in 0..k] ==
                 IF i = 0 THEN <<0, 1>>
                 ELSE RatAdd(sum_lon[i - 1], counted[i].averagePosition[1])
             sum_lat[i \in 0..k] ==
                 IF i = 0 THEN <<0, 1>>
                 ELSE RatAdd(sum_lat[i - 1], counted[i].averagePosition[2])
         IN  IF total > 0
             THEN [node EXCEPT
                      !.poiCount = total,
                      !.averagePosition = <<RatDivInt(sum_lon[k], k),
                                            RatDivInt(sum_lat[k], k)>>]
             ELSE [node EXCEPT !.poiCount = total]

\* lines 88-110: the node's own summary, its children being summarised
aggregate(F, node) ==
    IF node.children = <<>>
    THEN LET n == Len(node.data)
             sum_lon == SumSeq([i \in 1..n |-> F[node.data[i]].lon])
             sum_lat == SumSeq([i \in 1..n |-> F[node.data[i]].lat])
         IN  IF n > 0
             THEN [node EXCEPT
                      !.averagePosition = <<Rat(sum_lon, n), Rat(sum_lat, n)>>,
                      !.poiCount = n]
             ELSE node
    ELSE LET counted == SelectSeq(node.children,
                 LAMBDA c : c.averagePosition # None /\ c.poiCount > 0)
             k == Len(counted)
             total == SumSeq([i \in 1..k |-> counted[i].poiCount])
             sum_lon[i \in 0..k] ==
                 IF i = 0 THEN <<0, 1>>
                 ELSE RatAdd(sum_lon[i - 1],
                             RatMulInt(counted[i].averagePosition[1],
                                       counted[i].poiCount))
             sum_lat[i \in 0..k] ==
                 IF i = 0 THEN <<0, 1>>
                 ELSE RatAdd(sum_lat[i - 1],
                             RatMulInt(counted[i].averagePosition[2],
                                       counted[i].poiCount))
         IN  IF total > 0
             THEN [node EXCEPT
                      !.poiCount = total,
                      !.averagePosition = <<RatDivInt(sum_lon[k], total),
                                            RatDivInt(sum_lat[k], total)>>]
             ELSE [node EXCEPT !.poiCount = total]

\* a variant that leaves a leaf without its summary
compute_average_position_leaf_skipped(F, self) ==
    IF self.children = <<>> THEN self ELSE aggregate(F, self)

RECURSIVE compute_average_position(_, _)
\* recurse into the children first, then summarise this node
compute_average_position(F, self) ==
    aggregate(F, [self EXCEPT !.children =
                    [i \in 1..Len(self.children) |->
                        compute_average_position(F, self.children[i])]])

-----------------------------------------------------------------------------
(* build_quadtree_for_category *)

\* a variant that hands every feature to every quadrant
bucket_unfiltered(F, feats, sub_box) == feats

\* line 154: [f for f in feats if sub_box.contains_feature(f)]
bucket(F, feats, sub_box) ==
    SelectSeq(feats, LAMBDA f : contains_feature(sub_box, F[f]))

\* a variant that forgets to clear the data of a subdivided node
attach_children_keep_data(node, kids) == [node EXCEPT !.children = kids]

\* lines 157-161: the children are appended; data is cleared if there are any
attach_children(node, kids) ==
    IF kids # <<>>
    THEN [node EXCEPT !.children = kids, !.data = <<>>]
    ELSE [node EXCEPT !.children = kids]

\* a variant that splits a node holding exactly max_per_node features
becomes_leaf_below_capacity(feats, depth, mpn) ==
    depth >= MAX_DEPTH \/ Len(feats) < mpn

\* line 148: at max depth or small enough, become a leaf
becomes_leaf(feats, depth, mpn) ==
    depth >= MAX_DEPTH \/ Len(feats) <= mpn

\* a variant that makes a child for every quadrant, empty or not
occupied_quadrants_all(F, feats, subs) == <<1, 2, 3, 4>>

\* lines 153-155: the quadrants, in order, whose bucket is not empty
occupied_quadrants(F, feats, subs) ==
    SelectSeq(<<1, 2, 3, 4>>, LAMBDA k : bucket(F, feats, subs[k]) # <<>>)

RECURSIVE build(_, _, _, _, _)
\* _build(feats, box, depth) with the enclosing features F and max_per_node
build(F, mpn, feats, box, depth) ==
    LET node == [QuadtreeNode(box) EXCEPT !.data = feats]
    IN  IF becomes_leaf(feats, depth, mpn)
        THEN compute_average_position(F, node)
        ELSE LET subs == subdivide_into_quadrants(box)
                 made == occupied_quadrants(F, feats, subs)
                 kids == [j \in 1..Len(made) |->
                             build(F, mpn, bucket(F, feats, subs[made[j]]),
                                   subs[made[j]], depth + 1)]
             IN  compute_average_position(F, attach_children(node, kids))

build_quadtree_for_category(F, box, mpn) ==
    build(F, mpn, [i \in 1..Len(F) |-> i], box, 0)

-----------------------------------------------------------------------------
(* compute_depth_stats *)

HasAttr(node, name) == name \in DOMAIN node

RECURSIVE StatsLoop(_, _)
\* the while loop over the queue; queue entries are <<node, depth>>
StatsLoop(queue, st) ==
    IF queue = <<>> THEN [raised |-> "none", stats |-> st]
    ELSE LET node == Head(queue)[1]
             depth == Head(queue)[2]
             st0 == IF depth \in DOMAIN st THEN st
                    ELSE [d \in DOMAIN st \cup {depth} |->
                            IF d = depth
                            THEN [nodeCount |-> 0, totalPois |-> 0, sumChunkKm |-> 0]
                            ELSE st[d]]
             st1 == [st0 EXCEPT ![depth].nodeCount = @ + 1,
                                ![depth].totalPois = @ + node.poiCount]
         IN  IF ~HasAttr(node, "chunkSizeKm")
             THEN [raised |-> "AttributeError", stats |-> None]
             ELSE StatsLoop(
                     Tail(queue) \o [i \in 1..Len(node.children) |->
                                        <<node.children[i], depth + 1>>],
                     [st1 EXCEPT ![depth].sumChunkKm = @ + node.chunkSizeKm])

compute_depth_stats(tree) ==
    LET r == StatsLoop(<< <<tree, 0>> >>, <<>>)
    IN  IF r.raised # "none" THEN r
        ELSE [raised |-> "none",
              stats |-> [d \in DOMAIN r.stats |->
                          [nodeCount |-> r.stats[d].nodeCount,
                           totalPois |-> r.stats[d].totalPois,
                           avgChunkKm |->
                               IF r.stats[d].nodeCount # 0
                               THEN Rat(r.stats[d].sumChunkKm, r.stats[d].nodeCount)
                               ELSE <<0, 1>>]]]

-----------------------------------------------------------------------------
(* Reading a finished tree: a node is addressed by the path of child       *)
(* positions leading to it from the root, <<>> being the root.             *)

RECURSIVE Paths(_)
Paths(t) ==
    {<<>>} \cup UNION { { <<i>> \o p : p \in Paths(t.children[i]) } :
                        i \in 1..Len(t.children) }

RECURSIVE NodeAt(_, _)
NodeAt(t, p) == IF p = <<>> THEN t ELSE NodeAt(t.children[Head(p)], Tail(p))

Elems(s) == { s[i] : i \in 1..Len(s) }

RECURSIVE SubtreeData(_)
\* the features (indices) held as data anywhere in the subtree
SubtreeData(t) ==
    Elems(t.data) \cup UNION { SubtreeData(t.children[i]) :
                                i \in 1..Len(t.children) }

IsLeaf(t) == t.children = <<>>

-----------------------------------------------------------------------------
(* Inputs *)

Feature(lon, lat) == [lon |-> lon, lat |-> lat]

\* interior and on no split line, the centre, on the vertical split line
\* only, outside to the east, and the south-west corner
Points ==
    { Feature(Grid \div 4 + 1, Grid \div 4 + 1),
      Feature(Grid \div 2, Grid \div 2),
      Feature(Grid \div 2, Grid \div 4 + 1),
      Feature(Grid + Grid \div 4, Grid \div 4 + 1),
      Feature(0, 0) }

\* one feature in the middle of each quadrant of the square box:
\* (lon, lat) = (1, 1), (1, 3), (3, 1), (3, 3) on the box (0, 0, 4, 4)
FourCorners ==
    << Feature(Grid \div 4, Grid \div 4),
       Feature(Grid \div 4, 3 * (Grid \div 4)),
       Feature(3 * (Grid \div 4), Grid \div 4),
       Feature(3 * (Grid \div 4), 3 * (Grid \div 4)) >>

FeatureLists ==
    UNION { [1..n -> Points] : n \in 0..MaxFeatures } \cup {FourCorners}

\* a square, a box of zero height, a box of zero width, and two inverted
\* boxes (south > north, west > east)
Boxes ==
    { Quad(0, 0, Grid, Grid),
      Quad(0, 0, 0, Grid),
      Quad(0, 0, Grid, 0),
      Quad(Grid, 0, 0, Grid),
      Quad(0, Grid, Grid, 0) }

WellFormed(box) == box.south <= box.north /\ box.west <= box.east

QCoords == { 2 * k : k \in 0..MaxQ }

QBoxes == { Quad(s, w, n, e) : s \in QCoords, w \in QCoords,
                               n \in QCoords, e \in QCoords }

QPoints == { Feature(x, y) : x \in 0..(2 * MaxQ), y \in 0..(2 * MaxQ) }

-----------------------------------------------------------------------------
(* The driver of quadtree_builder.py: build, then depth statistics *)

QuadIdle ==
    /\ qbox = Quad(0, 0, 0, 0)
    /\ quads = <<>>
    /\ qfeat = None
    /\ qhit = None

TileIdle ==
    /\ tbox = [min_lat |-> 0, min_lon |-> 0, max_lat |-> 0, max_lon |-> 0]
    /\ chunks16 = <<>>
    /\ chunksDiv = <<>>
    /\ divider = 0

PipeIdle ==
    /\ master_bbox = Quad(0, 0, 0, 0)
    /\ cat_map = <<>>
    /\ gi = 1
    /\ ci = 0
    /\ files = <<>>
    /\ calls = <<>>

StepIdle ==
    /\ heap = <<>>
    /\ stack = <<>>
    /\ computed = <<>>
    /\ lists = <<>>

FetchIdle ==
    /\ attempt = 0
    /\ response = <<>>
    /\ fetch_pc = "idle"
    /\ fetch_log = <<>>
    /\ fetch_result = <<>>

Init ==
    /\ FetchIdle
    /\ features \in FeatureLists
    /\ bbox \in Boxes
    /\ max_per_node \in -1..MaxPerNode
    /\ root = None
    /\ stats = None
    /\ err = "none"
    /\ pc = "start"
    /\ QuadIdle
    /\ TileIdle
    /\ PipeIdle
    /\ StepIdle

Build ==
    /\ pc = "start"
    /\ root' = build_quadtree_for_category(features, bbox, max_per_node)
    /\ pc' = "built"
    /\ UNCHANGED <<features, bbox, max_per_node, stats, err>>
    /\ UNCHANGED notBuildVars

ComputeDepthStats ==
    /\ pc = "built"
    /\ LET r == compute_depth_stats(root)
       IN  /\ err' = r.raised
           /\ stats' = r.stats
    /\ pc' = "done"
    /\ UNCHANGED <<features, bbox, max_per_node, root>>
    /\ UNCHANGED notBuildVars

Next == Build \/ ComputeDepthStats

Spec == Init /\ [][Next]_vars

-----------------------------------------------------------------------------
(* The Quad methods on their own *)

BuildIdle ==
    /\ features = <<>>
    /\ bbox = Quad(0, 0, 0, 0)
    /\ max_per_node = MAX_PER_NODE
    /\ root = None
    /\ stats = None
    /\ err = "none"
    /\ pc = "start"

InitQuad ==
    /\ FetchIdle
    /\ qbox \in QBoxes
    /\ quads = <<>>
    /\ qfeat = None
    /\ qhit = None
    /\ BuildIdle
    /\ TileIdle
    /\ PipeIdle
    /\ StepIdle

Subdivide ==
    /\ quads = <<>>
    /\ quads' = subdivide_into_quadrants(qbox)
    /\ UNCHANGED <<qbox, qfeat, qhit>>
    /\ UNCHANGED notQuadVars

Contains ==
    /\ qhit = None
    /\ \E f \in QPoints :
          /\ qfeat' = <<f>>
          /\ qhit' = <<contains_feature(qbox, f)>>
    /\ UNCHANGED <<qbox, quads>>
    /\ UNCHANGED notQuadVars

NextQuad == Subdivide \/ Contains

SpecQuad == InitQuad /\ [][NextQuad]_vars

-----------------------------------------------------------------------------
(* Tiling of a master box: bbox_handler.split_bbox and                     *)
(* classification_pipeline.subdivide_into_16                               *)

BBox(min_lat, min_lon, max_lat, max_lon) ==
    [min_lat |-> min_lat, min_lon |-> min_lon,
     max_lat |-> max_lat, max_lon |-> max_lon]

\* main_preprocess.py lines 69-70: the master BBox as a Quad
QuadOfBBox(b) == Quad(b.min_lat, b.min_lon, b.max_lat, b.max_lon)

RECURSIVE Flatten(_)
\* sub16.extend(...) over a sequence of lists
Flatten(ss) == IF ss = <<>> THEN <<>> ELSE Head(ss) \o Flatten(Tail(ss))

subdivide_into_16(big_bbox) ==
    LET sub4 == subdivide_into_quadrants(big_bbox)
    IN  Flatten([q \in 1..Len(sub4) |-> subdivide_into_quadrants(sub4[q])])

\* a variant that lets the row index run fastest
split_bbox_column_major(b, d) ==
    LET lat_step == (b.max_lat - b.min_lat) \div d
        lon_step == (b.max_lon - b.min_lon) \div d
    IN  [c \in 1..(d * d) |->
            LET i == (c - 1) % d
                j == (c - 1) \div d
            IN  BBox(b.min_lat + i * lat_step,
                     b.min_lon + j * lon_step,
                     b.min_lat + (i + 1) * lat_step,
                     b.min_lon + (j + 1) * lon_step)]

\* for i in range(divider) for j in range(divider): element i * divider + j
split_bbox(b, d) ==
    LET lat_step == (b.max_lat - b.min_lat) \div d
        lon_step == (b.max_lon - b.min_lon) \div d
    IN  [c \in 1..(d * d) |->
            LET i == (c - 1) \div d
                j == (c - 1) % d
            IN  BBox(b.min_lat + i * lat_step,
                     b.min_lon + j * lon_step,
                     b.min_lat + (i + 1) * lat_step,
                     b.min_lon + (j + 1) * lon_step)]

RECURSIVE LCMUpTo(_)
\* least common multiple of 1..n
LCMUpTo(n) ==
    IF n <= 1 THEN 1
    ELSE LET m == LCMUpTo(n - 1) IN (m * n) \div GCD(m, n)

\* edges are multiples of TileUnit: every step of split_bbox and every
\* midpoint of subdivide_into_16 is then an exact integer
TileUnit == 4 * LCMUpTo(MaxDivider)

TCoords == { 0, TileUnit, 2 * TileUnit }

TBoxes == { BBox(s, w, n, e) : s \in TCoords, w \in TCoords,
                               n \in TCoords, e \in TCoords }

InitTile ==
    /\ FetchIdle
    /\ tbox \in TBoxes
    /\ chunks16 = <<>>
    /\ chunksDiv = <<>>
    /\ divider = 0
    /\ BuildIdle
    /\ QuadIdle
    /\ PipeIdle
    /\ StepIdle

SubdivideInto16 ==
    /\ chunks16 = <<>>
    /\ chunks16' = subdivide_into_16(QuadOfBBox(tbox))
    /\ UNCHANGED <<tbox, chunksDiv, divider>>
    /\ UNCHANGED notTileVars

SplitBbox ==
    /\ divider = 0
    /\ \E d \in 1..MaxDivider :
          /\ divider' = d
          /\ chunksDiv' = split_bbox(tbox, d)
    /\ UNCHANGED <<tbox, chunks16>>
    /\ UNCHANGED notTileVars

NextTile == SubdivideInto16 \/ SplitBbox

SpecTile == InitTile /\ [][NextTile]_vars

-----------------------------------------------------------------------------
(* classification_pipeline.build_subcat_quadtrees, step 2: one quadtree    *)
(* per group and non-empty chunk                                           *)

RECURSIVE to_dict(_, _)
\* QuadtreeNode.to_dict; F is the list the node's data refers to
to_dict(F, self) ==
    [bbox |-> [south |-> self.bbox.south, west |-> self.bbox.west,
               north |-> self.bbox.north, east |-> self.bbox.east],
     poiCount |-> self.poiCount,
     leafCount |-> Len(self.data),
     averagePosition |-> self.averagePosition,
     data |-> [i \in 1..Len(self.data) |-> F[self.data[i]]],
     children |-> [i \in 1..Len(self.children) |-> to_dict(F, self.children[i])]]

\* line 182: [f for f in feats if cbox.contains_feature(f)]
chunk_feats(feats, cbox) ==
    SelectSeq(feats, LAMBDA f : contains_feature(cbox, f))

\* a variant that never skips a chunk
chunk_is_skipped_never(cf) == FALSE

\* line 183: if not chunk_feats: continue
chunk_is_skipped(cf) == cf = <<>>

\* inside one chunk, at a corner of four chunks, outside the master box
PipePoints ==
    { Feature(Grid \div 4 + 1, Grid \div 4 + 1),
      Feature(Grid \div 2, Grid \div 2),
      Feature(Grid + Grid \div 4, Grid \div 4 + 1) }

\* a group exists only once a feature was appended to it
GroupLists == UNION { [1..n -> PipePoints] : n \in 1..MaxGroupFeatures }

CatMaps == UNION { [1..g -> GroupLists] : g \in 1..MaxGroups }

InitPipe ==
    /\ FetchIdle
    /\ master_bbox \in { Quad(0, 0, Grid, Grid), Quad(0, 0, 0, Grid) }
    /\ cat_map \in CatMaps
    /\ gi = 1
    /\ ci = 0
    /\ files = <<>>
    /\ calls = <<>>
    /\ BuildIdle
    /\ QuadIdle
    /\ TileIdle
    /\ StepIdle

InChunkLoop == gi <= Len(cat_map) /\ ci < 16

\* lines 178-180: the box of the current chunk
CurrentChunk == subdivide_into_16(master_bbox)[ci + 1]

\* lines 183-185: nothing in this chunk
SkipEmptyChunk ==
    /\ InChunkLoop
    /\ chunk_is_skipped(chunk_feats(cat_map[gi], CurrentChunk))
    /\ ci' = ci + 1
    /\ UNCHANGED <<master_bbox, cat_map, gi, files, calls>>
    /\ UNCHANGED notPipeVars

\* lines 188-200: build the chunk's quadtree and write quadtree_<i>.json
BuildChunk ==
    /\ InChunkLoop
    /\ LET cf == chunk_feats(cat_map[gi], CurrentChunk)
           qt == build_quadtree_for_category(cf, CurrentChunk, PIPELINE_MAX_PER_NODE)
       IN  /\ ~chunk_is_skipped(cf)
           /\ calls' = Append(calls, [group |-> gi, features |-> cf,
                                      bbox |-> CurrentChunk,
                                      max_per_node |-> PIPELINE_MAX_PER_NODE])
           /\ files' = [k \in DOMAIN files \cup {<<gi, ci>>} |->
                           IF k = <<gi, ci>> THEN to_dict(cf, qt) ELSE files[k]]
    /\ ci' = ci + 1
    /\ UNCHANGED <<master_bbox, cat_map, gi>>
    /\ UNCHANGED notPipeVars

\* lines 168-178, 202: the chunks of this group are done, on to the next
NextGroup ==
    /\ gi <= Len(cat_map)
    /\ ci = 16
    /\ gi' = gi + 1
    /\ ci' = 0
    /\ UNCHANGED <<master_bbox, cat_map, files, calls>>
    /\ UNCHANGED notPipeVars

NextPipe == SkipEmptyChunk \/ BuildChunk \/ NextGroup

SpecPipe == InitPipe /\ [][NextPipe]_vars

-----------------------------------------------------------------------------
(* build_quadtree_for_category call by call: the recursion of _build and   *)
(* of _compute_average_position on an explicit stack                       *)

\* a frame of _build (at "enter", "loop", "ret150", "ret165"; feats is the
\* reference to its list; k is the quadrant of the for loop) or of
\* _compute_average_position (at "agg"; k is the child of the for loop)
Frame(fn, path, feats, box, depth, at, k) ==
    [fn |-> fn, path |-> path, feats |-> feats, box |-> box,
     depth |-> depth, at |-> at, k |-> k]

Top == stack[Len(stack)]

Popped == SubSeq(stack, 1, Len(stack) - 1)

WithTop(f) == [stack EXCEPT ![Len(stack)] = f]

\* the deepest stack the build can need: a _build and a
\* _compute_average_position frame per level
StackCap == 2 * (MAX_DEPTH + 2)

\* a variant that does not recurse into the children
children_to_visit_none(node) == <<>>

\* line 85: for child in self.children
children_to_visit(node) == node.children

\* a variant without the depth test
becomes_leaf_any_depth(feats, depth, mpn) == Len(feats) <= mpn

\* line 148 as _build evaluates it
stops_subdividing(feats, depth, mpn) == becomes_leaf(feats, depth, mpn)

\* the list the caller passes to build_quadtree_for_category
CallerList == <<0>>

\* the list made at line 154 for the child at path p
BucketList(p) == <<0>> \o p

\* the list made at line 161 for the node at path p
EmptyList(p) == <<5>> \o p

NoList == <<6>>

RECURSIVE Assemble(_, _, _)
\* the tree of objects reachable from the node at path p, every reference
\* replaced by the object it refers to
Assemble(h, ls, p) ==
    [h[p] EXCEPT !.data = ls[h[p].data],
                 !.children =
        [j \in 1..Len(h[p].children) |-> Assemble(h, ls, h[p].children[j])]]

Extended(h, p, v) == [q \in DOMAIN h \cup {p} |-> IF q = p THEN v ELSE h[q]]

\* a variant that empties the list the node refers to
clear_data_in_place(ls, node, fresh) ==
    IF node.children # <<>>
    THEN [lists |-> [ls EXCEPT ![node.data] = <<>>], node |-> node]
    ELSE [lists |-> ls, node |-> node]

\* lines 160-161: if node.children: node.data = [] (a new list object)
clear_data(ls, node, fresh) ==
    IF node.children # <<>>
    THEN [lists |-> Extended(ls, fresh, <<>>),
          node |-> [node EXCEPT !.data = fresh]]
    ELSE [lists |-> ls, node |-> node]

\* a point inside the box and on no split line, the centre of the box, and
\* a point outside the box
StepPoints ==
    { Feature(Grid \div 4 + 1, Grid \div 4 + 1),
      Feature(Grid \div 2, Grid \div 2),
      Feature(Grid + Grid \div 4, Grid \div 4 + 1) }

StepLists == UNION { [1..n -> StepPoints] : n \in 0..MaxStepFeatures }

StepBoxes == { Quad(0, 0, Grid, Grid), Quad(0, 0, 0, Grid), Quad(Grid, 0, 0, Grid) }

InitSteps ==
    /\ FetchIdle
    /\ features \in StepLists
    /\ bbox \in StepBoxes
    /\ max_per_node \in -1..MaxStepPerNode
    /\ root = None
    /\ stats = None
    /\ err = "none"
    /\ pc = "start"
    /\ heap = <<>>
    /\ stack = <<>>
    /\ computed = <<>>
    /\ lists = [id \in {CallerList} |-> [i \in 1..Len(features) |-> i]]
    /\ QuadIdle
    /\ TileIdle
    /\ PipeIdle

\* line 167: _build(features, bbox, depth=0)
CallBuild ==
    /\ pc = "start"
    /\ stack' = << Frame("_build", <<>>, CallerList, bbox, 0, "enter", 1) >>
    /\ pc' = "running"
    /\ UNCHANGED <<features, bbox, max_per_node, root, heap, computed, lists>>
    /\ UNCHANGED notStepVars

Running == pc = "running" /\ stack # <<>>

\* the new object of lines 144-145
NewNode(f) == [QuadtreeNode(f.box) EXCEPT !.data = f.feats]

\* lines 144-149: a leaf; its summary is computed next
BuildLeaf ==
    /\ Running /\ Top.fn = "_build" /\ Top.at = "enter"
    /\ stops_subdividing(lists[Top.feats], Top.depth, max_per_node)
    /\ heap' = Extended(heap, Top.path, NewNode(Top))
    /\ computed' = Extended(computed, Top.path, 0)
    /\ stack' = Append(WithTop([Top EXCEPT !.at = "ret150"]),
                       Frame("agg", Top.path, NoList, Top.box, Top.depth, "agg", 1))
    /\ UNCHANGED <<features, bbox, max_per_node, root, pc, lists>>
    /\ UNCHANGED notStepVars

\* lines 144-153: the node is subdivided
BuildSubdivide ==
    /\ Running /\ Top.fn = "_build" /\ Top.at = "enter"
    /\ ~stops_subdividing(lists[Top.feats], Top.depth, max_per_node)
    /\ heap' = Extended(heap, Top.path, NewNode(Top))
    /\ computed' = Extended(computed, Top.path, 0)
    /\ stack' = WithTop([Top EXCEPT !.at = "loop", !.k = 1])
    /\ UNCHANGED <<features, bbox, max_per_node, root, pc, lists>>
    /\ UNCHANGED notStepVars

InLoop == Running /\ Top.fn = "_build" /\ Top.at = "loop"

CurrentBucket ==
    bucket(features, lists[Top.feats],
           subdivide_into_quadrants(Top.box)[Top.k])

\* lines 153-155: the quadrant's bucket is empty
SkipQuadrant ==
    /\ InLoop /\ Top.k <= 4
    /\ CurrentBucket = <<>>
    /\ stack' = WithTop([Top EXCEPT !.k = @ + 1])
    /\ UNCHANGED <<features, bbox, max_per_node, root, pc, heap, computed, lists>>
    /\ UNCHANGED notStepVars

\* lines 153-156: _build(bucket, sub_box, depth + 1)
DescendQuadrant ==
    /\ InLoop /\ Top.k <= 4
    /\ CurrentBucket # <<>>
    /\ Len(stack) < StackCap
    /\ LET child == Top.path \o <<Len(heap[Top.path].children) + 1>>
       IN  /\ lists' = Extended(lists, BucketList(child), CurrentBucket)
           /\ stack' = Append(stack,
                              Frame("_build", child, BucketList(child),
                                    subdivide_into_quadrants(Top.box)[Top.k],
                                    Top.depth + 1, "enter", 1))
    /\ UNCHANGED <<features, bbox, max_per_node, root, pc, heap, computed>>
    /\ UNCHANGED notStepVars

\* lines 160-164: clear the data if children were added; compute the summary
BuildAfterLoop ==
    /\ InLoop /\ Top.k > 4
    /\ LET cleared == clear_data(lists, heap[Top.path], EmptyList(Top.path))
       IN  /\ heap' = [heap EXCEPT ![Top.path] = cleared.node]
           /\ lists' = cleared.lists
    /\ stack' = Append(WithTop([Top EXCEPT !.at = "ret165"]),
                       Frame("agg", Top.path, NoList, Top.box, Top.depth, "agg", 1))
    /\ UNCHANGED <<features, bbox, max_per_node, root, pc, computed>>
    /\ UNCHANGED notStepVars

Returning == Running /\ Top.fn = "_build" /\ Top.at \in {"ret150", "ret165"}

\* lines 150/165 and 156-157: return the node; the caller appends it
ReturnToParent ==
    /\ Returning /\ Len(stack) > 1
    /\ LET parent == stack[Len(stack) - 1]
       IN  /\ heap' = [heap EXCEPT ![parent.path].children = Append(@, Top.path)]
           /\ stack' = [Popped EXCEPT ![Len(stack) - 1].k = @ + 1]
    /\ UNCHANGED <<features, bbox, max_per_node, root, pc, computed, lists>>
    /\ UNCHANGED notStepVars

\* lines 150/165 and 167: the root is returned to the caller
ReturnTree ==
    /\ Returning /\ Len(stack) = 1
    /\ root' = Assemble(heap, lists, <<>>)
    /\ stack' = <<>>
    /\ pc' = "built"
    /\ UNCHANGED <<features, bbox, max_per_node, heap, computed, lists>>
    /\ UNCHANGED notStepVars

InAgg == Running /\ Top.fn = "agg"

\* lines 85-86: child._compute_average_position()
AggDescend ==
    /\ InAgg /\ Top.k <= Len(children_to_visit(heap[Top.path]))
    /\ Len(stack) < StackCap
    /\ LET child == children_to_visit(heap[Top.path])[Top.k]
       IN  stack' = Append(WithTop([Top EXCEPT !.k = @ + 1]),
                           Frame("agg", child, NoList, heap[child].bbox,
                                 Len(child), "agg", 1))
    /\ UNCHANGED <<features, bbox, max_per_node, root, pc, heap, computed, lists>>
    /\ UNCHANGED notStepVars

\* lines 88-110: the node's own summary
AggSelf ==
    /\ InAgg /\ Top.k > Len(children_to_visit(heap[Top.path]))
    /\ LET view == [heap[Top.path] EXCEPT !.data = lists[@], !.children =
                       [j \in 1..Len(heap[Top.path].children) |->
                           heap[heap[Top.path].children[j]]]]
           done == aggregate(features, view)
       IN  heap' = [heap EXCEPT ![Top.path].poiCount = done.poiCount,
                                ![Top.path].averagePosition = done.averagePosition]
    /\ computed' = [computed EXCEPT ![Top.path] = @ + 1]
    /\ stack' = Popped
    /\ UNCHANGED <<features, bbox, max_per_node, root, pc, lists>>
    /\ UNCHANGED notStepVars

NextSteps ==
    \/ CallBuild
    \/ BuildLeaf
    \/ BuildSubdivide
    \/ SkipQuadrant
    \/ DescendQuadrant
    \/ BuildAfterLoop
    \/ ReturnToParent
    \/ ReturnTree
    \/ AggDescend
    \/ AggSelf

SpecSteps == InitSteps /\ [][NextSteps]_vars

\* the interpreter runs the call to its end: no step is postponed for ever
FairSpecSteps == InitSteps /\ [][NextSteps]_vars /\ WF_vars(NextSteps)

-----------------------------------------------------------------------------
(* fetch_osm_data of fetch_overpass.py: the retry loop around requests.get *)

StatusCodes == {200, 304, 404, 429, 503}

Texts == {"<osm/>", "<osm><node/></osm>"}

\* what requests.get can do: raise a RequestException (no response), or
\* return a response with a status code and a text
Outcomes ==
    {[raised |-> TRUE, status_code |-> 0, text |-> ""]}
    \cup {[raised |-> FALSE, status_code |-> c, text |-> t] :
             c \in StatusCodes, t \in Texts}

\* response.raise_for_status() raises HTTPError for 4xx and 5xx
raise_for_status(status_code) == 400 <= status_code /\ status_code < 600

\* a variant that counts the attempts from 0
backoff_429_from_zero(a) == 5 * a

\* line 45: backoff_seconds = 5 * (attempt + 1)
backoff_429(a) == 5 * (a + 1)

\* line 56: backoff_seconds = 3 * (attempt + 1)
backoff_error(a) == 3 * (a + 1)

Get(a, o) == [op |-> "get", attempt |-> a, outcome |-> o, seconds |-> 0]

Sleep(a, secs) == [op |-> "sleep", attempt |-> a, outcome |-> <<>>, seconds |-> secs]

InitFetch ==
    /\ FetchIdle
    /\ BuildIdle
    /\ QuadIdle
    /\ TileIdle
    /\ PipeIdle
    /\ StepIdle

\* lines 34-37: the call enters the loop with attempt = 0
CallFetch ==
    /\ fetch_pc = "idle"
    /\ fetch_pc' = "request"
    /\ UNCHANGED <<attempt, response, fetch_log, fetch_result>>
    /\ UNCHANGED notFetchVars

\* line 40: response = requests.get(...)
Request ==
    /\ fetch_pc = "request"
    /\ attempt < max_attempts
    /\ \E o \in Outcomes :
          /\ response' = <<o>>
          /\ fetch_log' = Append(fetch_log, Get(attempt, o))
    /\ fetch_pc' = "handle"
    /\ UNCHANGED <<attempt, fetch_result>>
    /\ UNCHANGED notFetchVars

\* continue: the next value of range(max_attempts), or the end of the loop
NextAttempt ==
    /\ attempt' = attempt + 1
    /\ response' = <<>>
    /\ fetch_pc' = IF attempt + 1 < max_attempts THEN "request" ELSE "exhausted"

\* lines 43-48: status 429
RateLimited ==
    /\ fetch_pc = "handle"
    /\ ~response[1].raised
    /\ response[1].status_code = 429
    /\ fetch_log' = Append(fetch_log, Sleep(attempt, backoff_429(attempt)))
    /\ NextAttempt
    /\ UNCHANGED fetch_result
    /\ UNCHANGED notFetchVars

\* lines 50-52: raise_for_status passes; sleep one second, return the text
Succeeded ==
    /\ fetch_pc = "handle"
    /\ ~response[1].raised
    /\ response[1].status_code # 429
    /\ ~raise_for_status(response[1].status_code)
    /\ fetch_log' = Append(fetch_log, Sleep(attempt, 1))
    /\ fetch_result' = <<response[1].text>>
    /\ fetch_pc' = "returned"
    /\ UNCHANGED <<attempt, response>>
    /\ UNCHANGED notFetchVars

\* lines 54-59: requests.get or raise_for_status raised a RequestException
RequestFailed ==
    /\ fetch_pc = "handle"
    /\ \/ response[1].raised
       \/ /\ response[1].status_code # 429
          /\ raise_for_status(response[1].status_code)
    /\ fetch_log' = Append(fetch_log, Sleep(attempt, backoff_error(attempt)))
    /\ NextAttempt
    /\ UNCHANGED fetch_result
    /\ UNCHANGED notFetchVars

\* lines 61-63: raise RequestException
RaiseFailure ==
    /\ fetch_pc = "exhausted"
    /\ fetch_pc' = "raised"
    /\ UNCHANGED <<attempt, response, fetch_log, fetch_result>>
    /\ UNCHANGED notFetchVars

NextFetch ==
    \/ CallFetch
    \/ Request
    \/ RateLimited
    \/ Succeeded
    \/ RequestFailed
    \/ RaiseFailure

SpecFetch == InitFetch /\ [][NextFetch]_vars

-----------------------------------------------------------------------------
(* Properties of the finished tree *)

Built == pc # "start"

FeatureIds == 1..Len(features)

\* written out edge by edge: inclusive containment of a feature in a box
Within(box, f) ==
    /\ box.south <= f.lat /\ f.lat <= box.north
    /\ box.west <= f.lon /\ f.lon <= box.east

InsideRoot == { i \in FeatureIds : Within(bbox, features[i]) }

\* the nodes (paths) that hold feature i as data
Holders(i) == { p \in Paths(root) : i \in Elems(NodeAt(root, p).data) }

\* feature i lies on a split line of some subdivided node's box
OnSplitLine(i) ==
    \E p \in Paths(root) :
        LET nd == NodeAt(root, p)
        IN  /\ ~IsLeaf(nd)
            /\ Within(nd.bbox, features[i])
            /\ \/ 2 * features[i].lat = nd.bbox.south + nd.bbox.north
               \/ 2 * features[i].lon = nd.bbox.west + nd.bbox.east

\* C1: root.poiCount is the number of input features within the root box,
\* exceeded only through features duplicated on an internal split line: no
\* feature outside the root box is held or counted, none inside is lost, and
\* one inside that lies on no split line is held exactly once.  (Stated for
\* well-formed boxes only.)
C1_RootCountsInside ==
    (Built /\ WellFormed(bbox)) =>
        /\ \A i \in FeatureIds \ InsideRoot : Holders(i) = {}
        /\ \A i \in InsideRoot : Holders(i) # {}
        /\ \A i \in InsideRoot : ~OnSplitLine(i) => Cardinality(Holders(i)) = 1
        /\ root.poiCount >= Cardinality(InsideRoot)
        /\ (\A i \in InsideRoot : ~OnSplitLine(i)) =>
               root.poiCount = Cardinality(InsideRoot)

\* C2: a node with at least one child holds no data of its own; data is
\* held only by nodes whose children list is empty.
C2_InternalHoldsNoData ==
    Built => \A p \in Paths(root) :
                LET nd == NodeAt(root, p)
                IN  /\ (nd.children # <<>> => nd.data = <<>>)
                    /\ (nd.data # <<>> => IsLeaf(nd))

\* a subdivided root: its data was cleared while its descendants hold data
C2_Witness ==
    /\ pc = "built"
    /\ ~IsLeaf(root)
    /\ root.data = <<>>
    /\ \E p \in Paths(root) : NodeAt(root, p).data # <<>>

\* C3: no node lies deeper than MAX_DEPTH, and every leaf above MAX_DEPTH
\* holds at most max_per_node features, whatever the features and the box.
\* (Stated for well-formed boxes and max_per_node >= 0 only.)
C3_DepthAndCapacity ==
    (Built /\ WellFormed(bbox) /\ max_per_node >= 0) =>
        \A p \in Paths(root) :
            LET nd == NodeAt(root, p)
            IN  /\ Len(p) <= MAX_DEPTH
                /\ (IsLeaf(nd) /\ Len(p) < MAX_DEPTH) =>
                       nd.poiCount <= max_per_node

\* sum over the children of averagePosition[c] * poiCount, as a rational
RECURSIVE WeightedSum(_, _)
WeightedSum(kids, c) ==
    IF kids = <<>> THEN <<0, 1>>
    ELSE IF Head(kids).poiCount = 0 THEN WeightedSum(Tail(kids), c)
         ELSE RatAdd(RatMulInt(Head(kids).averagePosition[c], Head(kids).poiCount),
                     WeightedSum(Tail(kids), c))

\* the rational r equals num / den
RatIs(r, num, den) == r[1] * den = r[2] * num

AggregatedRight(nd) ==
    IF IsLeaf(nd)
    THEN LET n == Len(nd.data)
         IN  /\ nd.poiCount = n
             /\ IF n = 0 THEN nd.averagePosition = None
                ELSE /\ nd.averagePosition # None
                     /\ RatIs(nd.averagePosition[1],
                              SumSeq([i \in 1..n |-> features[nd.data[i]].lon]), n)
                     /\ RatIs(nd.averagePosition[2],
                              SumSeq([i \in 1..n |-> features[nd.data[i]].lat]), n)
    ELSE LET total == SumSeq([i \in 1..Len(nd.children) |->
                                 nd.children[i].poiCount])
         IN  /\ nd.poiCount = total
             /\ IF total = 0 THEN nd.averagePosition = None
                ELSE /\ nd.averagePosition # None
                     /\ \A c \in {1, 2} :
                           LET w == WeightedSum(nd.children, c)
                           IN  RatIs(nd.averagePosition[c], w[1], w[2] * total)

\* C4: after the build every internal node has poiCount equal to the sum of
\* its children's poiCount and averagePosition equal to the mean of the
\* children's averagePosition weighted by their poiCount (None when the
\* total is 0); every leaf with n features has poiCount n and the arithmetic
\* mean of its own features as averagePosition, None when n = 0.
C4_Aggregation ==
    Built => \A p \in Paths(root) : AggregatedRight(NodeAt(root, p))

\* an internal node whose children carry different weights and different
\* average positions, and an empty leaf
C4_Witness ==
    /\ pc = "built"
    /\ \E i, j \in 1..Len(root.children) :
          /\ root.children[i].poiCount # root.children[j].poiCount
          /\ root.children[i].averagePosition # root.children[j].averagePosition
          /\ root.poiCount = root.children[i].poiCount + root.children[j].poiCount

\* C5: containment is inclusive on all four edges, so a subdivided node
\* passes each of its features to every quadrant that touches it: a feature
\* held below a subdivided node and lying within one of its quadrants, edges
\* included, is held below the child owning that quadrant; a feature at the
\* centre of the square box is held below all four children of the root.
C5_BoundaryDuplication ==
    Built =>
        /\ \A p \in Paths(root) :
              LET nd == NodeAt(root, p)
                  subs == subdivide_into_quadrants(nd.bbox)
              IN  ~IsLeaf(nd) =>
                      \A i \in SubtreeData(nd) : \A k \in 1..4 :
                          Within(subs[k], features[i]) =>
                              \E j \in 1..Len(nd.children) :
                                  /\ nd.children[j].bbox = subs[k]
                                  /\ i \in SubtreeData(nd.children[j])
        /\ \A i \in FeatureIds :
              ( /\ bbox = Quad(0, 0, Grid, Grid)
                /\ features[i] = Feature(Grid \div 2, Grid \div 2)
                /\ ~IsLeaf(root) ) =>
                  /\ Len(root.children) = 4
                  /\ \A j \in 1..4 : i \in SubtreeData(root.children[j])

\* the square box, subdivided, with a feature exactly at its centre that is
\* counted in all four quadrants
C5_Witness ==
    /\ pc = "built"
    /\ bbox = Quad(0, 0, Grid, Grid)
    /\ Len(root.children) = 4
    /\ \E i \in FeatureIds :
          /\ features[i] = Feature(Grid \div 2, Grid \div 2)
          /\ \A j \in 1..4 : i \in SubtreeData(root.children[j])
    /\ root.poiCount > Len(features)

-----------------------------------------------------------------------------
(* Properties of Quad *)

Subdivided == quads # <<>>

\* C6: subdivide_into_quadrants splits at the midpoint of both axes and
\* returns exactly four boxes in the order south-west, south-east,
\* north-west, north-east.
C6_FourQuadrantsInOrder ==
    Subdivided =>
        /\ Len(quads) = 4
        /\ \A k \in 1..4 :
              \* rows: 1, 2 are the southern half, 3, 4 the northern half
              /\ IF k \in {1, 2}
                 THEN /\ quads[k].south = qbox.south
                      /\ 2 * quads[k].north = qbox.south + qbox.north
                 ELSE /\ 2 * quads[k].south = qbox.south + qbox.north
                      /\ quads[k].north = qbox.north
              \* columns: 1, 3 are the western half, 2, 4 the eastern half
              /\ IF k \in {1, 3}
                 THEN /\ quads[k].west = qbox.west
                      /\ 2 * quads[k].east = qbox.west + qbox.east
                 ELSE /\ 2 * quads[k].west = qbox.west + qbox.east
                      /\ quads[k].east = qbox.east

\* a box that is wider than tall has been subdivided into distinct quadrants
C6_Witness ==
    /\ Subdivided
    /\ qbox.north - qbox.south > 0
    /\ qbox.east - qbox.west > qbox.north - qbox.south
    /\ \A k, l \in 1..4 : k # l => quads[k] # quads[l]

Area(box) == (box.north - box.south) * (box.east - box.west)

Max(a, b) == IF a >= b THEN a ELSE b

Min(a, b) == IF a <= b THEN a ELSE b

\* the common part of two boxes (inverted when they are disjoint)
Meet(a, b) ==
    Quad(Max(a.south, b.south), Max(a.west, b.west),
         Min(a.north, b.north), Min(a.east, b.east))

OnMidline(box, f) ==
    \/ 2 * f.lat = box.south + box.north
    \/ 2 * f.lon = box.west + box.east

\* C7: the quadrants of a well-formed box tile it exactly: every point of
\* the box is in some quadrant, every quadrant lies inside the box, two
\* quadrants meet only on the midlines, and the areas add up to the box's.
C7_QuadrantsTile ==
    (Subdivided /\ WellFormed(qbox)) =>
        /\ \A f \in QPoints :
              Within(qbox, f) => \E k \in 1..Len(quads) : contains_feature(quads[k], f)
        /\ \A k \in 1..Len(quads) :
              /\ WellFormed(quads[k])
              /\ qbox.south <= quads[k].south /\ quads[k].north <= qbox.north
              /\ qbox.west <= quads[k].west /\ quads[k].east <= qbox.east
        /\ \A k, l \in 1..Len(quads) :
              k # l =>
                  /\ \A f \in QPoints :
                        (contains_feature(quads[k], f) /\ contains_feature(quads[l], f))
                            => OnMidline(qbox, f)
                  /\ WellFormed(Meet(quads[k], quads[l]))
                         => Area(Meet(quads[k], quads[l])) = 0
        /\ SumSeq([k \in 1..Len(quads) |-> Area(quads[k])]) = Area(qbox)

\* a box of positive area has been subdivided, and a point on its midline
\* was found inside it
C7_Witness ==
    /\ Subdivided
    /\ Area(qbox) > 0 /\ WellFormed(qbox)
    /\ qhit = <<TRUE>>
    /\ OnMidline(qbox, qfeat[1])

-----------------------------------------------------------------------------
(* Properties of the whole run: build, then compute_depth_stats *)

\* C8: for every well-formed box and feature list, the build followed by
\* compute_depth_stats completes without an exception.
C8_CoreIsTotal ==
    (pc = "done" /\ WellFormed(bbox)) => err = "none"

NodesAtDepth(d) == { p \in Paths(root) : Len(p) = d }

RECURSIVE SumPois(_)
\* sum of poiCount over a set of paths
SumPois(ps) ==
    IF ps = {} THEN 0
    ELSE LET p == CHOOSE q \in ps : TRUE
         IN  NodeAt(root, p).poiCount + SumPois(ps \ {p})

\* C9: compute_depth_stats returns a mapping from each depth of the tree to
\* the number of nodes at that depth and the sum of their poiCount.
C9_DepthStats ==
    pc = "done" =>
        /\ err = "none"
        /\ stats # None
        /\ DOMAIN stats = { Len(p) : p \in Paths(root) }
        /\ \A d \in DOMAIN stats :
              /\ stats[d].nodeCount = Cardinality(NodesAtDepth(d))
              /\ stats[d].totalPois = SumPois(NodesAtDepth(d))

\* C10: a box with south > north or west > east is rejected with an
\* InvalidBoundingBox error; the build never returns a tree for it.
C10_InvalidBoxRejected ==
    ~WellFormed(bbox) => (pc = "start" \/ err = "InvalidBoundingBox")

-----------------------------------------------------------------------------
(* Further properties of the finished tree *)

\* C13: with an empty feature list and a well-formed box the build returns a
\* single leaf: no children, no data, poiCount 0, averagePosition None.
C13_EmptyInputSingleLeaf ==
    (Built /\ features = <<>> /\ WellFormed(bbox)) =>
        /\ root.children = <<>>
        /\ root.data = <<>>
        /\ root.poiCount = 0
        /\ root.averagePosition = None
        /\ root.bbox = bbox

\* an empty list was built with a negative capacity, so the root went
\* through the subdivision and not through the early return
C13_Witness ==
    /\ pc = "built"
    /\ features = <<>>
    /\ WellFormed(bbox)
    /\ max_per_node < 0
    /\ root.children = <<>>

\* C14: the square box with one feature in the middle of each quadrant and
\* max_per_node = 1: the root has four children, each a leaf at depth 1 with
\* exactly one feature; root poiCount is 4 and averagePosition the centre.
C14_FourCornersScenario ==
    ( /\ Built
      /\ bbox = Quad(0, 0, Grid, Grid)
      /\ max_per_node = 1
      /\ features = FourCorners ) =>
        /\ Len(root.children) = 4
        /\ root.data = <<>>
        /\ \A j \in 1..4 :
              /\ IsLeaf(root.children[j])
              /\ Len(root.children[j].data) = 1
              /\ root.children[j].poiCount = 1
        /\ root.children[1].data = <<1>>
        /\ root.children[2].data = <<3>>
        /\ root.children[3].data = <<2>>
        /\ root.children[4].data = <<4>>
        /\ root.poiCount = 4
        /\ root.averagePosition = << <<Grid \div 2, 1>>, <<Grid \div 2, 1>> >>

C14_Witness ==
    /\ pc = "built"
    /\ bbox = Quad(0, 0, Grid, Grid)
    /\ max_per_node = 1
    /\ features = FourCorners
    /\ Len(root.children) = 4
    /\ root.poiCount = 4

\* quadrant k (1 = SW, 2 = SE, 3 = NW, 4 = NE) of a box, edge by edge
IsQuadrantOf(q, k, box) ==
    /\ IF k \in {1, 2}
       THEN q.south = box.south /\ 2 * q.north = box.south + box.north
       ELSE 2 * q.south = box.south + box.north /\ q.north = box.north
    /\ IF k \in {1, 3}
       THEN q.west = box.west /\ 2 * q.east = box.west + box.east
       ELSE 2 * q.west = box.west + box.east /\ q.east = box.east

\* the strictly increasing maps from 1..n into 1..4
Placements(n) ==
    { g \in [1..n -> 1..4] : \A a, b \in 1..n : a < b => g[a] < g[b] }

\* C17: every internal node has between 1 and 4 children; the children own
\* distinct quadrants of the parent's box and appear in SW, SE, NW, NE
\* order, empty quadrants being left out; every child has poiCount >= 1.
C17_ChildrenAreOccupiedQuadrants ==
    Built => \A p \in Paths(root) :
        LET nd == NodeAt(root, p)
            n == Len(nd.children)
        IN  ~IsLeaf(nd) =>
                /\ n \in 1..4
                /\ \E g \in Placements(n) :
                      \A j \in 1..n : IsQuadrantOf(nd.children[j].bbox, g[j], nd.bbox)
                /\ \A j \in 1..n : nd.children[j].poiCount >= 1

\* a root with two or three children: some quadrant was left out
C17_Witness ==
    /\ pc = "built"
    /\ bbox = Quad(0, 0, Grid, Grid)
    /\ Len(root.children) \in {2, 3}
    /\ \A j \in 1..Len(root.children) : root.children[j].poiCount >= 1

\* the longest common prefix of two paths
RECURSIVE CommonPrefix(_, _)
CommonPrefix(p, q) ==
    IF p = <<>> \/ q = <<>> \/ Head(p) # Head(q) THEN <<>>
    ELSE <<Head(p)>> \o CommonPrefix(Tail(p), Tail(q))

\* C20: features are held by leaves only; two different nodes hold the same
\* feature only if it lies on a split line of the subdivided node at which
\* their paths part; a feature within a well-formed root box that lies on
\* no split line is held by exactly one leaf.
C20_SingleHolder ==
    Built => \A i \in FeatureIds :
        /\ \A p \in Holders(i) : IsLeaf(NodeAt(root, p))
        /\ \A p, q \in Holders(i) :
              p # q =>
                  LET a == NodeAt(root, CommonPrefix(p, q))
                  IN  /\ ~IsLeaf(a)
                      /\ Within(a.bbox, features[i])
                      /\ OnMidline(a.bbox, features[i])
        /\ (WellFormed(bbox) /\ i \in InsideRoot /\ ~OnSplitLine(i)) =>
               Cardinality(Holders(i)) = 1

\* a tree in which one feature is held by a single leaf below the root and
\* another, on a split line, by several leaves
C20_Witness ==
    /\ pc = "built"
    /\ ~IsLeaf(root)
    /\ \E i, j \in FeatureIds :
          /\ ~OnSplitLine(i) /\ Cardinality(Holders(i)) = 1
          /\ OnSplitLine(j) /\ Cardinality(Holders(j)) > 1

-----------------------------------------------------------------------------
(* Properties of the tilings *)

TileHeight == tbox.max_lat - tbox.min_lat

TileWidth == tbox.max_lon - tbox.min_lon

TileWellFormed == TileHeight >= 0 /\ TileWidth >= 0

\* the box is cell (row, col) of the n x n grid over tbox; a cell is given
\* by its four edges whatever the record's field names
IsGridCell(s, w, n_, e, row, col, n) ==
    /\ n * s = n * tbox.min_lat + row * TileHeight
    /\ n * n_ = n * tbox.min_lat + (row + 1) * TileHeight
    /\ n * w = n * tbox.min_lon + col * TileWidth
    /\ n * e = n * tbox.min_lon + (col + 1) * TileWidth

\* split_bbox lists the divider x divider cells in row-major order
SplitIsRowMajor ==
    /\ Len(chunksDiv) = divider * divider
    /\ \A c \in 1..Len(chunksDiv) :
          IsGridCell(chunksDiv[c].min_lat, chunksDiv[c].min_lon,
                     chunksDiv[c].max_lat, chunksDiv[c].max_lon,
                     (c - 1) \div divider, (c - 1) % divider, divider)

\* subdivide_into_16 lists the 4 x 4 cells in row-major order
Chunks16RowMajor ==
    /\ Len(chunks16) = 16
    /\ \A c \in 1..Len(chunks16) :
          IsGridCell(chunks16[c].south, chunks16[c].west,
                     chunks16[c].north, chunks16[c].east,
                     (c - 1) \div 4, (c - 1) % 4, 4)

\* subdivide_into_16 lists the 4 x 4 cells quadrant by quadrant: element
\* 4 * q + r is sub-quadrant r of quadrant q, both in SW, SE, NW, NE order
Chunks16QuadrantOrder ==
    /\ Len(chunks16) = 16
    /\ \A c \in 1..Len(chunks16) :
          LET q == (c - 1) \div 4
              r == (c - 1) % 4
          IN  IsGridCell(chunks16[c].south, chunks16[c].west,
                         chunks16[c].north, chunks16[c].east,
                         2 * (q \div 2) + (r \div 2), 2 * (q % 2) + (r % 2), 4)

\* the 16 chunks are equal-sized, cover the box cell by cell and overlap
\* only on shared boundaries
Chunks16Tile ==
    /\ \A row, col \in 0..3 :
          \E c \in 1..Len(chunks16) :
              IsGridCell(chunks16[c].south, chunks16[c].west,
                         chunks16[c].north, chunks16[c].east, row, col, 4)
    /\ \A c \in 1..Len(chunks16) : 16 * Area(chunks16[c]) = TileHeight * TileWidth
    /\ \A c, e \in 1..Len(chunks16) :
          c # e => (WellFormed(Meet(chunks16[c], chunks16[e]))
                        => Area(Meet(chunks16[c], chunks16[e])) = 0)

\* C15 as claimed: both tilings list the cells in row-major order.
\* (Stated for boxes of positive area only.)
C15_TilingsRowMajor ==
    (TileHeight > 0 /\ TileWidth > 0) =>
        /\ divider # 0 => SplitIsRowMajor
        /\ chunks16 # <<>> => Chunks16RowMajor

\* C15 as amended: split_bbox yields divider^2 equal cells in row-major
\* order; subdivide_into_16 yields 16 equal cells that cover the box and
\* overlap only on boundaries, listed quadrant by quadrant.
C15_TilingsAmended ==
    TileWellFormed =>
        /\ divider # 0 => SplitIsRowMajor
        /\ chunks16 # <<>> => (Chunks16QuadrantOrder /\ Chunks16Tile)

\* a box of positive area tiled by both functions, the grid being at least
\* 2 x 2
C15_Witness ==
    /\ TileHeight > 0 /\ TileWidth > 0
    /\ divider >= 2
    /\ Len(chunksDiv) = divider * divider
    /\ Len(chunks16) = 16

-----------------------------------------------------------------------------
(* Properties of build_subcat_quadtrees *)

\* chunk i of group g has been handled
Handled(g, i) == g < gi \/ (g = gi /\ i < ci)

HasFeatureIn(g, box) ==
    \E n \in 1..Len(cat_map[g]) : Within(box, cat_map[g][n])

-----------------------------------------------------------------------------
(* Properties of the build, call by call *)

\* the stepwise build returns the tree the function is defined to return
StepsAgree ==
    pc = "built" =>
        root = build_quadtree_for_category(features, bbox, max_per_node)

\* the cap on the stack never holds a call back
StackFits ==
    /\ Len(stack) <= StackCap
    /\ (Running /\ Top.at \in {"loop", "agg"}) => Len(stack) < StackCap

\* the _build frames on the stack
BuildFrames == { i \in 1..Len(stack) : stack[i].fn = "_build" }

\* C11: build_quadtree_for_category terminates for every feature list, box
\* and max_per_node: no call of _build is ever deeper than MAX_DEPTH, at
\* most MAX_DEPTH + 1 calls of _build are open at a time, and the build
\* eventually returns a tree.
C11_BuildTerminates ==
    /\ [](/\ \A i \in BuildFrames : stack[i].depth <= MAX_DEPTH
          /\ Cardinality(BuildFrames) <= MAX_DEPTH + 1)
    /\ <>(pc = "built")

\* a build with max_per_node <= 0 and two coincident points has returned a
\* tree that goes down to MAX_DEPTH
C11_Witness ==
    /\ pc = "built"
    /\ max_per_node <= 0
    /\ Len(features) >= 2
    /\ features[1] = features[2]
    /\ \E p \in DOMAIN heap : Len(p) = MAX_DEPTH

\* the calls of _build that have subdivided their node: line 165 is their
\* return
SubdividedFrames == { i \in BuildFrames : stack[i].at = "ret165" }

\* C18: when a subdivided node got no children, its feature list was empty,
\* and the node remains an empty leaf (data = [], poiCount = 0).
C18_ZeroChildrenOnlyWhenEmpty ==
    \A i \in SubdividedFrames :
        heap[stack[i].path].children = <<>> =>
            /\ lists[stack[i].feats] = <<>>
            /\ lists[heap[stack[i].path].data] = <<>>
            /\ heap[stack[i].path].poiCount = 0

\* the _build calls that still work on the subtree of the node at path p
BuildingUnder(p) ==
    { i \in BuildFrames :
        /\ Len(stack[i].path) >= Len(p)
        /\ SubSeq(stack[i].path, 1, Len(p)) = p
        /\ \/ stack[i].at \in {"enter", "loop"}
           \/ stack[i].path # p }

\* C19: aggregation is a single bottom-up pass: the summary of a node is
\* computed at most once, and exactly once by the time the build returns;
\* when it has been computed, the summaries of all its children have been
\* computed and its subtree is fully built.
C19_SinglePass ==
    \A p \in DOMAIN computed :
        /\ computed[p] <= 1
        /\ pc = "built" => computed[p] = 1
        /\ computed[p] >= 1 =>
              /\ \A j \in 1..Len(heap[p].children) :
                    computed[heap[p].children[j]] >= 1
              /\ BuildingUnder(p) = {}

-----------------------------------------------------------------------------
(* Counts and inputs of the finished tree *)

RECURSIVE LeafTotal(_)
\* the sum of len(data) over the leaves of the subtree
LeafTotal(t) ==
    IF IsLeaf(t) THEN Len(t.data)
    ELSE SumSeq([i \in 1..Len(t.children) |-> LeafTotal(t.children[i])])

\* C22: in the returned tree every node's poiCount is the sum of len(data)
\* over the leaves of its subtree (at a leaf, the length of its own data),
\* and averagePosition is None exactly when poiCount is 0.
C22_PoiCountIsLeafTotal ==
    Built => \A p \in Paths(root) :
                LET nd == NodeAt(root, p)
                IN  /\ nd.poiCount = LeafTotal(nd)
                    /\ (nd.averagePosition = None) <=> (nd.poiCount = 0)

\* a subdivided root whose leaves hold more entries than there are features
\* (a feature on a split line is held by several leaves)
C22_Witness ==
    /\ pc = "built"
    /\ ~IsLeaf(root)
    /\ root.poiCount > Len(features)
    /\ root.averagePosition # None

-----------------------------------------------------------------------------
(* Properties of fetch_osm_data *)

\* the attempt did not deliver: a request exception, status 429, or another
\* error status
Failed(o) == o.raised \/ o.status_code = 429 \/ o.status_code >= 400

\* the positions of the requests in the log
Gets == { i \in 1..Len(fetch_log) : fetch_log[i].op = "get" }

====
